---- MODULE Spec2Model ----
(***************************************************************************)
(* WhatToPick (wtp): the outline parser Tree::from_file and the descent    *)
(* navigator pick of src/src/main.rs, as one state machine.                *)
(*                                                                         *)
(* A String is modelled as the sequence of its UTF-8 bytes, a char as its  *)
(* code point.  A Tree is the record [key, children]; the parser's stack   *)
(* `parents` is a sequence of records [node, ws], bottom first.  A usize   *)
(* is kept in two parts, and a line of the file as a run of SPACE          *)
(* characters followed by its other bytes, so that a line of 2^31 and more *)
(* leading spaces can be read.                                             *)
(***************************************************************************)
EXTENDS Integers, Sequences, FiniteSets, TLC

VARIABLES
    pc,       \* position of the single thread of control
    lines,    \* from_file: the lines reader.lines() has handed out so far
    parents,  \* from_file: the stack of (node, indentation level)
    ws,       \* from_file: the whitespace count of the line being handled
    node,     \* from_file: the node of the line being handled
    tree,     \* main: the tree from_file returned
    t,        \* pick: the node the descent stands on
    prompts,  \* the option list of every raw_prompt call, in order
    picked,   \* the index (0-based) every raw_prompt call returned, in order
    cancelled,\* a raw_prompt call reported a cancellation
    out,      \* the bytes the program wrote to standard output
    effects,  \* what main did to its environment: directories, processes
    panic     \* the panic that ended the process, "none" when there is none

vars ==
    <<pc, lines, parents, ws, node, tree, t, prompts, picked, cancelled, out,
      effects, panic>>

---------------------------------------------------------------------------
(* Bounds of the model.                                                    *)

\* The file holds at most MaxLines lines.
MaxLines == 3
\* A line starts with at most MaxIndent whitespace characters.
MaxIndent == 3

---------------------------------------------------------------------------
(* Characters and strings.                                                 *)

\* char::is_whitespace: the code points with the Unicode White_Space property.
WhiteSpace ==
    (9..13) \cup {32, 133, 160, 5760} \cup (8192..8202)
        \cup {8232, 8233, 8239, 8287, 12288}

is_whitespace(c) == c \in WhiteSpace

\* The UTF-8 encoding of one code point of the Basic Multilingual Plane.
encode_utf8(c) ==
    IF c < 128 THEN <<c>>
    ELSE IF c < 2048 THEN <<192 + (c \div 64), 128 + (c % 64)>>
    ELSE <<224 + (c \div 4096), 128 + ((c \div 64) % 64), 128 + (c % 64)>>

\* A String built from a sequence of chars.
RECURSIVE string_from(_)
string_from(cs) ==
    IF cs = <<>> THEN <<>> ELSE encode_utf8(Head(cs)) \o string_from(Tail(cs))

\* str::chars: the code points of a (valid UTF-8) string of at most
\* three-byte characters.
RECURSIVE chars(_)
chars(s) ==
    IF s = <<>> THEN <<>>
    ELSE IF s[1] < 128 THEN <<s[1]>> \o chars(SubSeq(s, 2, Len(s)))
    ELSE IF s[1] < 224
        THEN <<(s[1] % 32) * 64 + (s[2] % 64)>> \o chars(SubSeq(s, 3, Len(s)))
    ELSE <<(s[1] % 16) * 4096 + (s[2] % 64) * 64 + (s[3] % 64)>>
             \o chars(SubSeq(s, 4, Len(s)))

\* line.chars().take_while(|c| c.is_whitespace()).count()
RECURSIVE count_leading_whitespace(_)
count_leading_whitespace(cs) ==
    IF cs = <<>> \/ ~is_whitespace(Head(cs)) THEN 0
    ELSE 1 + count_leading_whitespace(Tail(cs))

\* str::is_char_boundary(i): i is a BYTE offset; the start, the end, or a byte
\* that is no UTF-8 continuation byte (0x80..0xBF).
is_char_boundary(s, i) ==
    \/ i = 0
    \/ i = Len(s)
    \/ i < Len(s) /\ s[i + 1] \notin 128..191

\* line[ws..]: the bytes from BYTE offset ws on (defined on a char boundary;
\* the slice panics elsewhere).
slice_from(s, i) == SubSeq(s, i + 1, Len(s))

\* A usize (64 bits): the number hi * 2^16 + lo, with lo below 2^16, kept in
\* two parts because the numbers of the model checker stop at 2^31 - 1.
usize(n) == [hi |-> n \div 65536, lo |-> n % 65536]

\* Addition of two usize (without overflow, far below 2^64).
usize_add(a, b) ==
    [hi |-> a.hi + b.hi + ((a.lo + b.lo) \div 65536), lo |-> (a.lo + b.lo) % 65536]

\* The difference a - b of two usize, a small number.
usize_sub(a, b) == (a.hi - b.hi) * 65536 + (a.lo - b.lo)

\* Comparison of two usize.
usize_lt(a, b) == a.hi < b.hi \/ (a.hi = b.hi /\ a.lo < b.lo)
usize_le(a, b) == a = b \/ usize_lt(a, b)

\* `ws as i32`: the cast keeps the low 32 bits of the usize and reads them as
\* a two's complement number. Computed on the two 16-bit halves of the low 32
\* bits, so that no intermediate value leaves the 32-bit range.
as_i32(n) ==
    LET lo == n.lo
        hi == n.hi % 65536
    IN  IF hi >= 32768 THEN (hi - 65536) * 65536 + lo ELSE hi * 65536 + lo

\* A line of the file: `spaces` SPACE characters (U+0020, one byte each)
\* followed by the bytes `text`. A line written out in full has no such run.
Line(spaces, text) == [spaces |-> spaces, text |-> text]

\* line.chars().take_while(|c| c.is_whitespace()).count(), line 102: the run
\* of spaces, then the leading whitespace characters of the text.
line_count_leading_whitespace(line) ==
    usize_add(line.spaces, usize(count_leading_whitespace(chars(line.text))))

\* line.is_char_boundary(w), for a byte offset w at or after the run of
\* spaces: every space is one byte, the offset falls in the text.
line_is_char_boundary(line, w) ==
    is_char_boundary(line.text, usize_sub(w, line.spaces))

\* line[w..], lines 104-105, for a byte offset w at or after the run of spaces.
line_slice_from(line, w) == slice_from(line.text, usize_sub(w, line.spaces))

---------------------------------------------------------------------------
(* Trees.                                                                  *)

\* Tree::new(key)
TreeNew(key) == [key |-> key, children |-> <<>>]

\* parents.last_mut().unwrap().0.children.push(u), on a stack with a top.
PushChild(stack, u) ==
    [stack EXCEPT ![Len(stack)].node.children = Append(@, u)]

\* parents.pop(): the stack without its top.
Popped(stack) == SubSeq(stack, 1, Len(stack) - 1)

\* The stack from_file starts with: the synthetic root, at level -1.
InitialParents == << [node |-> TreeNew(<<>>), ws |-> -1] >>

\* A closing loop that stops at an equal level: equal indentation nests.
ShouldCloseStrictly(w, stack) == as_i32(w) < stack[Len(stack)].ws

\* The condition of the closing loop: `ws as i32 <= parents.last().unwrap().1`.
ShouldClose(w, stack) == as_i32(w) <= stack[Len(stack)].ws

\* The line pick prints for a root without children, as its bytes:
\* Nothing to pick from! See `wtp --help` for more options.
NothingToPick ==
    << 78, 111, 116, 104, 105, 110, 103, 32, 116, 111, 32, 112, 105, 99, 107,
       32, 102, 114, 111, 109, 33, 32, 83, 101, 101, 32, 96, 119, 116, 112, 32,
       45, 45, 104, 101, 108, 112, 96, 32, 102, 111, 114, 32, 109, 111, 114,
       101, 32, 111, 112, 116, 105, 111, 110, 115, 46 >>

---------------------------------------------------------------------------
(* The input: the lines reader.lines() hands out.                          *)

\* The whitespace characters lines are indented with: SPACE (one byte in
\* UTF-8) and NO-BREAK SPACE (two bytes).
IndentChars == {32, 160}

\* The indentations: up to MaxIndent copies of one whitespace character.
Indents == { [i \in 1..n |-> w] : w \in IndentChars, n \in 0..MaxIndent }

\* The text of line k, when it has one: a letter of its own ('a' for line 1).
Letter(k) == 96 + k

\* The long runs of spaces a line may start with: 2^31 and 2^32 - 1 spaces,
\* the ends of the range where the low 32 bits read as a negative i32.
LongIndents == { [hi |-> 32768, lo |-> 0], [hi |-> 65535, lo |-> 65535] }

\* The lines line k of the file is drawn from: an indentation, then nothing
\* or the letter of the line, written out in full; or a long run of spaces,
\* then nothing or the letter of the line.
InputLines(k) ==
    { Line(usize(0), string_from(ind \o body)) :
          ind \in Indents, body \in {<<>>, <<Letter(k)>>} }
        \cup { Line(n, body) : n \in LongIndents, body \in {<<>>, <<Letter(k)>>} }

\* The value of a variable of the program that is not in scope.
Undefined == [undefined |-> TRUE]

---------------------------------------------------------------------------
(* main: the command line and the branches of main.                        *)

\* The bound of the command line: at most MaxArgs arguments after the name
\* of the program.
MaxArgs == 2

\* The arguments of the process, as the bytes the system hands over:
\* -h --help -e --edit -f --file -x, the identifier work, and the byte 0xFF,
\* which is no valid Unicode.
ArgWords ==
    { <<45, 104>>, <<45, 45, 104, 101, 108, 112>>, <<45, 101>>, <<45, 45, 101, 100, 105, 116>>,
      <<45, 102>>, <<45, 45, 102, 105, 108, 101>>, <<45, 120>>, <<119, 111, 114, 107>>,
      <<255>> }

\* The name the program is called by, the first item of env::args(): wtp.
ProgramName == <<119, 116, 112>>

\* The command lines, the name of the program left out.
Argvs == UNION { [1..n -> ArgWords] : n \in 0..MaxArgs }

\* Whether a byte is a UTF-8 continuation byte.
is_continuation(b) == b \in 128..191

\* The first item of a non-empty sequence of bytes read as UTF-8: a valid
\* character and its length, or an invalid sequence and the length of its
\* maximal invalid prefix (the part String::from_utf8_lossy replaces by one
\* U+FFFD).
utf8_step(s) ==
    LET b == s[1]
        second == IF b = 224 THEN 160..191
                  ELSE IF b = 237 THEN 128..159
                  ELSE IF b = 240 THEN 144..191
                  ELSE IF b = 244 THEN 128..143
                  ELSE 128..191
        cont(i) == Len(s) >= i /\ is_continuation(s[i])
        width == IF b < 128 THEN 1
                 ELSE IF b \in 194..223 THEN 2
                 ELSE IF b \in 224..239 THEN 3
                 ELSE IF b \in 240..244 THEN 4
                 ELSE 0
    IN  IF width = 0 THEN [valid |-> FALSE, len |-> 1]
        ELSE IF width = 1 THEN [valid |-> TRUE, len |-> 1]
        ELSE IF ~(Len(s) >= 2 /\ s[2] \in second) THEN [valid |-> FALSE, len |-> 1]
        ELSE IF width = 2 THEN [valid |-> TRUE, len |-> 2]
        ELSE IF ~cont(3) THEN [valid |-> FALSE, len |-> 2]
        ELSE IF width = 3 THEN [valid |-> TRUE, len |-> 3]
        ELSE IF ~cont(4) THEN [valid |-> FALSE, len |-> 3]
        ELSE [valid |-> TRUE, len |-> 4]

\* Whether a sequence of bytes is valid UTF-8 (what OsString::into_string and
\* env::var accept).
RECURSIVE is_utf8(_)
is_utf8(s) ==
    IF s = <<>> THEN TRUE
    ELSE /\ utf8_step(s).valid
         /\ is_utf8(SubSeq(s, utf8_step(s).len + 1, Len(s)))

\* Path::to_string_lossy: the bytes of the path, every maximal invalid
\* sequence replaced by U+FFFD (EF BF BD).
RECURSIVE to_string_lossy(_)
to_string_lossy(s) ==
    IF s = <<>> THEN <<>>
    ELSE (IF utf8_step(s).valid THEN SubSeq(s, 1, utf8_step(s).len)
          ELSE <<239, 191, 189>>)
             \o to_string_lossy(SubSeq(s, utf8_step(s).len + 1, Len(s)))

\* println!(text): the bytes handed to standard output, the text and a line
\* feed.
Printed(text) == text \o <<10>>

\* env::args() hands out every item without a panic: the name of the program
\* and every argument are valid Unicode.
args_are_unicode(argv) ==
    is_utf8(ProgramName) /\ \A i \in DOMAIN argv : is_utf8(argv[i])

\* The command lines args() returns for.
UnicodeArgvs == { argv \in Argvs : args_are_unicode(argv) }

\* arg.starts_with("-")
starts_with_dash(a) == Len(a) >= 1 /\ a[1] = 45

\* args(), lines 67-78: the set of the arguments that start with "-" ...
args_flags(argv) == { argv[i] : i \in { j \in DOMAIN argv : starts_with_dash(argv[j]) } }

\* ... and the last of the other arguments, None when there is none.
args_id(argv) ==
    LET others == { j \in DOMAIN argv : ~starts_with_dash(argv[j]) }
    IN  IF others = {} THEN [some |-> FALSE]
        ELSE [some |-> TRUE,
              value |-> argv[CHOOSE j \in others : \A i \in others : i <= j]]

\* tree_id.unwrap_or("default".into())
tree_id_or_default(id) == IF id.some THEN id.value ELSE <<100, 101, 102, 97, 117, 108, 116>>

\* The data directory of the user, BaseDirs::data_dir(): a value of the
\* environment (XDG_DATA_HOME, or .local/share under the home directory).
\* /home/user/.local/share, the root directory /, and /\xFF, a name that is
\* no valid Unicode.
DataDirs ==
    { <<47, 104, 111, 109, 101, 47, 117, 115, 101, 114, 47, 46, 108, 111, 99,
        97, 108, 47, 115, 104, 97, 114, 101>>,
      <<47>>,
      <<47, 255>> }

\* Path::join (PathBuf::push, Unix): an absolute name replaces the path; else
\* the name is appended, after a separator when the path is not empty and
\* does not end with one.
join(path, name) ==
    IF Len(name) >= 1 /\ name[1] = 47 THEN name
    ELSE IF path # <<>> /\ path[Len(path)] # 47 THEN path \o <<47>> \o name
    ELSE path \o name

\* main, lines 149-150: dir, the directory WhatToPick of the data directory.
dir(data_dir) == join(data_dir, <<87, 104, 97, 116, 84, 111, 80, 105, 99, 107>>)

\* main, line 152: file
file(data_dir, argv) == join(dir(data_dir), tree_id_or_default(args_id(argv)))

\* The values of an environment variable: unset, empty, a command, bytes that
\* are no valid Unicode.
EnvValues ==
    { [some |-> FALSE], [some |-> TRUE, value |-> <<>>],
      [some |-> TRUE, value |-> <<118, 105>>], [some |-> TRUE, value |-> <<255>>] }

\* nonempty_env_var, lines 45-47: env::var(k).ok().filter(|x| !x.is_empty()),
\* on the value v of the variable.
nonempty_env_var(v) ==
    IF v.some /\ is_utf8(v.value) /\ v.value # <<>> THEN v ELSE [some |-> FALSE]

\* editor_command, lines 49-56, not on Windows: EDITOR, or VISUAL, or nano.
editor_command(editor, visual) ==
    IF nonempty_env_var(editor).some THEN editor.value
    ELSE IF nonempty_env_var(visual).some THEN visual.value
    ELSE <<110, 97, 110, 111>>

\* The version of the package, env!("CARGO_PKG_VERSION"): set by the build,
\* 0.1.0 here.
CARGO_PKG_VERSION == <<48, 46, 49, 46, 48>>

\* HELP_MESSAGE, lines 14-43, as its bytes.
HELP_MESSAGE ==
    << 10, 119, 116, 112, 32, 45, 32, 87, 104, 97, 116, 32, 84, 111, 32, 80,
       105, 99, 107, 63, 10, 68, 101, 99, 105, 115, 105, 111, 110, 32, 116,
       114, 101, 101, 115, 32, 116, 111, 32, 104, 101, 108, 112, 32, 104, 117,
       109, 97, 110, 115, 32, 100, 101, 99, 105, 100, 101, 32, 115, 116, 117,
       102, 102, 10, 118 >>
    \o CARGO_PKG_VERSION \o
    << 10, 10, 85, 83, 65, 71, 69, 58, 10, 32, 32, 32, 32, 119, 116, 112, 32,
       91, 70, 76, 65, 71, 93, 32, 80, 73, 67, 75, 95, 84, 82, 69, 69, 95, 73,
       68, 10, 10, 70, 76, 65, 71, 58, 10, 32, 32, 32, 32, 45, 104, 44, 32, 45,
       45, 104, 101, 108, 112, 32, 32, 83, 104, 111, 119, 115, 32, 116, 104,
       105, 115, 32, 109, 101, 115, 115, 97, 103, 101, 10, 32, 32, 32, 32, 45,
       101, 44, 32, 45, 45, 101, 100, 105, 116, 32, 32, 69, 100, 105, 116, 115,
       32, 116, 104, 101, 32, 80, 73, 67, 75, 95, 84, 82, 69, 69, 95, 73, 68,
       32, 102, 105, 108, 101, 10, 32, 32, 32, 32, 45, 102, 44, 32, 45, 45,
       102, 105, 108, 101, 32, 32, 79, 117, 116, 112, 117, 116, 115, 32, 116,
       104, 101, 32, 112, 97, 116, 104, 32, 102, 111, 114, 32, 116, 104, 101,
       32, 80, 73, 67, 75, 95, 84, 82, 69, 69, 95, 73, 68, 32, 102, 105, 108,
       101, 10, 32, 32, 32, 32, 110, 111, 32, 102, 108, 97, 103, 32, 32, 32,
       32, 32, 73, 110, 116, 101, 114, 97, 99, 116, 105, 118, 101, 108, 121,
       32, 104, 101, 108, 112, 115, 32, 121, 111, 117, 32, 112, 105, 99, 107,
       32, 111, 110, 101, 32, 111, 102, 32, 116, 104, 101, 32, 111, 112, 116,
       105, 111, 110, 115, 10, 10, 80, 73, 67, 75, 95, 84, 82, 69, 69, 32, 102,
       105, 108, 101, 32, 102, 111, 114, 109, 97, 116, 58, 10, 32, 32, 32, 32,
       73, 116, 39, 115, 32, 97, 32, 116, 114, 101, 101, 32, 119, 104, 101,
       114, 101, 32, 115, 105, 98, 108, 105, 110, 103, 115, 32, 97, 114, 101,
       32, 105, 110, 32, 116, 104, 101, 32, 115, 97, 109, 101, 32, 105, 110,
       100, 101, 110, 116, 97, 116, 105, 111, 110, 32, 108, 101, 118, 101, 108,
       32, 97, 110, 100, 32, 99, 104, 105, 108, 100, 114, 101, 110, 10, 32, 32,
       32, 32, 104, 97, 118, 101, 32, 109, 111, 114, 101, 32, 105, 110, 100,
       101, 110, 116, 97, 116, 105, 111, 110, 32, 116, 104, 97, 110, 32, 116,
       104, 101, 105, 114, 32, 112, 97, 114, 101, 110, 116, 115, 46, 32, 69,
       120, 97, 109, 112, 108, 101, 58, 10, 10, 32, 32, 32, 32, 65, 32, 110,
       111, 100, 101, 32, 105, 110, 32, 108, 101, 118, 101, 108, 32, 49, 10,
       32, 32, 32, 32, 32, 32, 32, 32, 83, 111, 109, 101, 32, 99, 104, 105,
       108, 100, 32, 105, 110, 32, 108, 101, 118, 101, 108, 32, 50, 10, 32, 32,
       32, 32, 32, 32, 32, 32, 65, 110, 111, 116, 104, 101, 114, 32, 99, 104,
       105, 108, 100, 32, 105, 110, 32, 108, 101, 118, 101, 108, 32, 50, 10,
       32, 32, 32, 32, 65, 110, 111, 116, 104, 101, 114, 32, 110, 111, 100,
       101, 32, 105, 110, 32, 108, 101, 118, 101, 108, 32, 49, 10, 32, 32, 32,
       32, 32, 32, 32, 32, 65, 32, 99, 104, 105, 108, 100, 32, 111, 102, 32,
       116, 104, 101, 32, 110, 111, 100, 101, 32, 97, 98, 111, 118, 101, 10,
       32, 32, 32, 32, 32, 32, 32, 32, 65, 110, 111, 116, 104, 101, 114, 32,
       99, 104, 105, 108, 100, 32, 111, 102, 32, 116, 104, 97, 116, 32, 115,
       97, 109, 101, 32, 110, 111, 100, 101, 10, 32, 32, 32, 32, 32, 32, 32,
       32, 89, 101, 116, 32, 97, 110, 111, 116, 104, 101, 114, 32, 99, 104,
       105, 108, 100, 32, 111, 102, 32, 116, 104, 97, 116, 32, 110, 111, 100,
       101, 10, 32, 32, 32, 32, 32, 32, 32, 32, 32, 32, 32, 32, 65, 32, 110,
       111, 100, 101, 32, 105, 110, 32, 108, 101, 118, 101, 108, 32, 51, 10,
       32, 32, 32, 32, 32, 32, 32, 32, 32, 32, 32, 32, 65, 110, 111, 116, 104,
       101, 114, 32, 111, 110, 101, 32, 105, 110, 32, 108, 101, 118, 101, 108,
       32, 51, 10, 10, 32, 32, 32, 32, 84, 79, 68, 79, 58, 32, 101, 120, 112,
       108, 97, 105, 110, 32, 104, 111, 119, 32, 105, 116, 32, 119, 111, 114,
       107, 115, 32, 98, 101, 116, 116, 101, 114, 46, 32, 73, 39, 108, 108, 32,
       100, 111, 32, 105, 116, 32, 108, 97, 116, 101, 114, 46, 32, 80, 114,
       111, 98, 97, 98, 108, 121, 46, 46, 46, 10 >>

\* main, line 155
WantsHelp(flags) == <<45, 45, 104, 101, 108, 112>> \in flags \/ <<45, 104>> \in flags

\* main, line 159
WantsEdit(flags) == <<45, 45, 101, 100, 105, 116>> \in flags \/ <<45, 101>> \in flags

\* main, line 165
WantsFile(flags) == <<45, 45, 102, 105, 108, 101>> \in flags \/ <<45, 102>> \in flags

\* main, lines 155-168: the command lines of each branch of main. --help
\* comes first, then --edit, then --file, then the pick.
HelpArgvs == { argv \in UnicodeArgvs : WantsHelp(args_flags(argv)) }

EditArgvs ==
    { argv \in UnicodeArgvs \ HelpArgvs : WantsEdit(args_flags(argv)) }

FileArgvs ==
    { argv \in UnicodeArgvs \ (HelpArgvs \cup EditArgvs) : WantsFile(args_flags(argv)) }

PickArgvs == UnicodeArgvs \ (HelpArgvs \cup EditArgvs \cup FileArgvs)

\* main, lines 159-163: what the edit branch works on, over the command lines
\* and the environments: the directory, the editor, the file.
EditRuns ==
    { [dir |-> dir(data_dir),
       program |-> editor_command(editor, visual),
       file |-> file(data_dir, argv)] :
          argv \in EditArgvs, data_dir \in DataDirs,
          editor \in EnvValues, visual \in EnvValues }

\* main, line 166: what the file branch prints, over the command lines and
\* the data directories.
FileTexts ==
    { Printed(to_string_lossy(file(data_dir, argv))) :
          argv \in FileArgvs, data_dir \in DataDirs }

---------------------------------------------------------------------------
(* The state machine.                                                      *)

\* The process starts: main is entered, nothing is read or printed.
Init ==
    /\ pc = "main"
    /\ lines = <<>>
    /\ parents = <<>>
    /\ ws = usize(0)
    /\ node = Undefined
    /\ tree = Undefined
    /\ t = Undefined
    /\ prompts = <<>>
    /\ picked = <<>>
    /\ cancelled = FALSE
    /\ out = <<>>
    /\ effects = <<>>
    /\ panic = "none"

\* main, line 147, and args, line 70: an item of env::args() is no valid
\* Unicode and the iterator panics.
MainArgsNotUnicode ==
    /\ pc = "main"
    /\ Argvs # UnicodeArgvs
    /\ pc' = "panicked"
    /\ panic' = "called Result::unwrap() on an Err value: OsString"
    /\ UNCHANGED <<lines, parents, ws, node, tree, t, prompts, picked, cancelled, out, effects>>

\* main, line 149: BaseDirs::new() finds no home directory and unwrap panics.
MainNoBaseDirs ==
    /\ pc = "main"
    /\ UnicodeArgvs # {}
    /\ pc' = "panicked"
    /\ panic' = "called Option::unwrap() on a None value"
    /\ UNCHANGED <<lines, parents, ws, node, tree, t, prompts, picked, cancelled, out, effects>>

\* main, lines 155-157: the command line holds --help or -h, the help message
\* is printed. println! panics when standard output rejects a write, with
\* the bytes written before it on standard output.
MainHelp ==
    /\ pc = "main"
    /\ HelpArgvs # {}
    /\ \E written \in 0..Len(Printed(HELP_MESSAGE)) :
           /\ out' = out \o SubSeq(Printed(HELP_MESSAGE), 1, written)
           /\ IF written = Len(Printed(HELP_MESSAGE))
              THEN pc' = "done" /\ UNCHANGED panic
              ELSE pc' = "panicked" /\ panic' = "failed printing to stdout"
    /\ UNCHANGED <<lines, parents, ws, node, tree, t, prompts, picked, cancelled, effects>>

\* main, lines 159-163, and spawn_editor, lines 58-64: the directory is
\* created (expect panics when it cannot be), the editor is spawned on the
\* file and waited for (main returns the error of either).
MainEdit(result) ==
    /\ pc = "main"
    /\ result \in {"ok", "create_dir_all failed", "spawn failed", "wait failed"}
    /\ \E run \in EditRuns :
           LET created == [op |-> "create_dir_all", path |-> run.dir]
               spawned == [op |-> "spawn", program |-> run.program, arg |-> run.file]
           IN  effects' =
                   CASE result = "create_dir_all failed" -> effects
                     [] result = "spawn failed" -> Append(effects, created)
                     [] OTHER -> Append(Append(effects, created), spawned)
    /\ pc' = CASE result = "ok" -> "done"
               [] result = "create_dir_all failed" -> "panicked"
               [] OTHER -> "failed"
    /\ panic' = IF result = "create_dir_all failed"
                THEN "Unable to create directory"
                ELSE panic
    /\ UNCHANGED <<lines, parents, ws, node, tree, t, prompts, picked, cancelled, out>>

\* main, lines 165-167: file.to_string_lossy() is printed. println! panics
\* when standard output rejects a write, with the bytes written before it on
\* standard output.
MainFile ==
    /\ pc = "main"
    /\ \E text \in FileTexts :
           \E written \in 0..Len(text) :
               /\ out' = out \o SubSeq(text, 1, written)
               /\ IF written = Len(text)
                  THEN pc' = "done" /\ UNCHANGED panic
                  ELSE pc' = "panicked" /\ panic' = "failed printing to stdout"
    /\ UNCHANGED <<lines, parents, ws, node, tree, t, prompts, picked, cancelled, effects>>

\* main, lines 169-170, and from_file, lines 91-96: no flag asks for anything
\* else, from_file is called; the file opens (or expect panics) and the stack
\* is set up.
MainPick(opened) ==
    /\ pc = "main"
    /\ PickArgvs # {}
    /\ IF opened
       THEN /\ parents' = InitialParents
            /\ pc' = "read"
            /\ UNCHANGED panic
       ELSE /\ pc' = "panicked"
            /\ panic' = "Couldn't open file"
            /\ UNCHANGED parents
    /\ UNCHANGED <<lines, ws, node, tree, t, prompts, picked, cancelled, out, effects>>

\* from_file, line 98: reader.lines() yields an error (the line is no valid
\* UTF-8, or the read fails) and unwrap panics.
ReadError ==
    /\ pc = "read"
    /\ pc' = "panicked"
    /\ panic' = "called Result::unwrap() on an Err value: io::Error"
    /\ UNCHANGED <<lines, parents, ws, node, tree, t, prompts, picked, cancelled, out, effects>>

\* from_file, lines 97-105: the next line of the file; its whitespace count;
\* the slice line[ws..], which panics off a char boundary; a line whose slice
\* is empty is skipped, any other gets a node and enters the closing loop.
ReadLine(line) ==
    /\ pc = "read"
    /\ Len(lines) < MaxLines
    /\ lines' = Append(lines, line)
    /\ LET n == line_count_leading_whitespace(line) IN
         IF ~line_is_char_boundary(line, n)
         THEN /\ pc' = "panicked"
              /\ panic' = "byte index is not a char boundary"
              /\ UNCHANGED <<ws, node>>
         ELSE IF line_slice_from(line, n) = <<>>
         THEN UNCHANGED <<pc, panic, ws, node>>
         ELSE /\ pc' = "close"
              /\ ws' = n
              /\ node' = TreeNew(line_slice_from(line, n))
              /\ UNCHANGED panic
    /\ UNCHANGED <<parents, tree, t, prompts, picked, cancelled, out, effects>>

\* from_file, lines 109-112: one turn of the closing loop. The top of the stack
\* is popped and appended to the children of the new top; last_mut().unwrap()
\* panics when the pop left the stack empty.
Close ==
    /\ pc = "close"
    /\ ShouldClose(ws, parents)
    /\ IF Len(parents) = 1
       THEN /\ parents' = <<>>
            /\ pc' = "panicked"
            /\ panic' = "called Option::unwrap() on a None value"
       ELSE /\ parents' = PushChild(Popped(parents), parents[Len(parents)].node)
            /\ UNCHANGED <<pc, panic>>
    /\ UNCHANGED <<lines, ws, node, tree, t, prompts, picked, cancelled, out, effects>>

\* from_file, line 115: the closing loop is over, the node is pushed.
Push ==
    /\ pc = "close"
    /\ ~ShouldClose(ws, parents)
    /\ parents' = Append(parents, [node |-> node, ws |-> as_i32(ws)])
    /\ pc' = "read"
    /\ ws' = usize(0)
    /\ node' = Undefined
    /\ UNCHANGED <<lines, tree, t, prompts, picked, cancelled, out, panic, effects>>

\* from_file, line 97: reader.lines() is exhausted.
EndOfFile ==
    /\ pc = "read"
    /\ pc' = "flush"
    /\ UNCHANGED <<lines, parents, ws, node, tree, t, prompts, picked, cancelled, out, panic, effects>>

\* from_file, lines 120-123: one turn of the end-of-input flush.
Flush ==
    /\ pc = "flush"
    /\ Len(parents) >= 2
    /\ parents' = PushChild(Popped(parents), parents[Len(parents)].node)
    /\ UNCHANGED <<pc, lines, ws, node, tree, t, prompts, picked, cancelled, out, panic, effects>>

\* from_file, line 125, and main, lines 170-171: the last entry of the stack
\* is returned (the reader and the stack go out of scope) and pick is called
\* on it.
Return ==
    /\ pc = "flush"
    /\ Len(parents) < 2
    /\ IF parents = <<>>
       THEN /\ pc' = "panicked"
            /\ panic' = "called Option::unwrap() on a None value"
            /\ UNCHANGED <<parents, tree, lines>>
       ELSE /\ tree' = parents[1].node
            /\ parents' = <<>>
            /\ lines' = <<>>
            /\ pc' = "pick"
            /\ UNCHANGED panic
    /\ UNCHANGED <<ws, node, t, prompts, picked, cancelled, out, effects>>

\* A pick that does not look for the empty root.
NothingToPickFromUnchecked(n) == FALSE

\* pick, line 130: `tree.children.is_empty()`, the root has nothing to pick.
NothingToPickFrom(n) == n.children = <<>>

\* A loop that stops at a node with a single child.
HasSeveralChildren(n) == Len(n.children) > 1

\* pick, line 136: `!t.children.is_empty()`, the condition of the loop.
HasChildren(n) == n.children # <<>>

\* pick, line 137: the keys of the children, in order.
Options(n) == [i \in DOMAIN n.children |-> n.children[i].key]

\* A descent that takes the index as counted from 1: the child before the one
\* chosen, the current node itself for the first.
DescendOffByOne(n, index) == IF index = 0 THEN n ELSE n.children[index]

\* pick, line 142: t = &t.children[res.index], res.index counted from 0.
Descend(n, index) == n.children[index + 1]

\* pick, lines 130-133: nothing to pick from; the line is printed and pick
\* returns. println! panics when standard output rejects a write, with the
\* bytes written before it on standard output.
PickEmpty ==
    /\ pc = "pick"
    /\ NothingToPickFrom(tree)
    /\ \E written \in 0..Len(Printed(NothingToPick)) :
           /\ out' = out \o SubSeq(Printed(NothingToPick), 1, written)
           /\ IF written = Len(Printed(NothingToPick))
              THEN pc' = "done" /\ UNCHANGED panic
              ELSE pc' = "panicked" /\ panic' = "failed printing to stdout"
    /\ UNCHANGED <<lines, parents, ws, node, tree, t, prompts, picked, cancelled, effects>>

\* pick, line 135: the descent starts at the root.
PickStart ==
    /\ pc = "pick"
    /\ ~NothingToPickFrom(tree)
    /\ t' = tree
    /\ pc' = "descend"
    /\ UNCHANGED <<lines, parents, ws, node, tree, prompts, picked, cancelled, out, panic, effects>>

\* pick, lines 136-142: one turn of the loop, the prompt answering with the
\* index of an option.
PromptAnswer(index) ==
    /\ pc = "descend"
    /\ HasChildren(t)
    /\ index \in 0..(Len(Options(t)) - 1)
    /\ prompts' = Append(prompts, Options(t))
    /\ picked' = Append(picked, index)
    /\ t' = Descend(t, index)
    /\ UNCHANGED <<pc, lines, parents, ws, node, tree, cancelled, out, panic, effects>>

\* pick, lines 136-140: one turn of the loop, the prompt reporting that the
\* user cancelled: raw_prompt returns Err and unwrap panics.
PromptCancel ==
    /\ pc = "descend"
    /\ HasChildren(t)
    /\ prompts' = Append(prompts, Options(t))
    /\ cancelled' = TRUE
    /\ pc' = "panicked"
    /\ panic' = "called Result::unwrap() on an Err value: OperationCanceled"
    /\ UNCHANGED <<lines, parents, ws, node, tree, t, picked, out, effects>>

\* pick, lines 136 and 144: the loop ends on a node without children and
\* pick returns; main returns Ok(()).
PickReturn ==
    /\ pc = "descend"
    /\ ~HasChildren(t)
    /\ pc' = "done"
    /\ UNCHANGED <<lines, parents, ws, node, tree, t, prompts, picked, cancelled, out, panic, effects>>

Next ==
    \/ MainArgsNotUnicode
    \/ MainNoBaseDirs
    \/ MainHelp
    \/ \E result \in {"ok", "create_dir_all failed", "spawn failed", "wait failed"} :
           MainEdit(result)
    \/ MainFile
    \/ \E opened \in BOOLEAN : MainPick(opened)
    \/ ReadError
    \/ \E line \in InputLines(Len(lines) + 1) : ReadLine(line)
    \/ Close
    \/ Push
    \/ EndOfFile
    \/ Flush
    \/ Return
    \/ PickEmpty
    \/ PickStart
    \/ \E index \in 0..(MaxLines + 1) : PromptAnswer(index)
    \/ PromptCancel
    \/ PickReturn

Spec == Init /\ [][Next]_vars

\* The program is one sequential thread: a step that can be taken is taken
\* (a prompt that is waiting is answered).
FairSpec == Spec /\ WF_vars(Next)

---------------------------------------------------------------------------
(* The vocabulary of the properties.                                       *)

\* The indentation level of a line: the number of its leading whitespace
\* characters, a usize.
Level(line) == line_count_leading_whitespace(line)

\* A blank line: empty, or made of whitespace characters only (the spaces of
\* its run are whitespace).
IsBlank(line) ==
    \A i \in DOMAIN chars(line.text) : is_whitespace(chars(line.text)[i])

\* The text of a line: what follows its leading whitespace characters, those
\* of its run and those at the start of its other bytes.
Text(line) ==
    LET cs == chars(line.text)
    IN  string_from(SubSeq(cs, count_leading_whitespace(cs) + 1, Len(cs)))

\* The numbers of the non-blank lines read so far.
NonBlank == { k \in DOMAIN lines : ~IsBlank(lines[k]) }

\* Non-blank lines j < k with only blank lines between them.
Adjacent(j, k) ==
    /\ j \in NonBlank
    /\ k \in NonBlank
    /\ j < k
    /\ \A m \in (j + 1)..(k - 1) : IsBlank(lines[m])

\* The nearest non-blank line before line k whose level is below that of
\* line k; 0 when there is none.
ParentLine(k) ==
    LET above == { j \in NonBlank : j < k /\ usize_lt(Level(lines[j]), Level(lines[k])) }
    IN  IF above = {} THEN 0 ELSE CHOOSE j \in above : \A i \in above : i <= j

\* from_file is about to return: the flush is over, and the one entry left on
\* the stack holds the tree it returns (line 125).
Returning == pc = "flush" /\ Len(parents) = 1

Result == parents[1].node

\* The nodes of a tree (each as the subtree below it), the tree itself included.
RECURSIVE Subtrees(_)
Subtrees(n) ==
    {n} \cup UNION { Subtrees(n.children[i]) : i \in DOMAIN n.children }

\* The (parent, child) pairs of a tree.
Edges(n) ==
    UNION { { <<p, p.children[i]>> : i \in DOMAIN p.children } : p \in Subtrees(n) }

\* n is the node made from line k: its key ends with the letter of line k
\* (every line has a letter of its own, and a key is a suffix of its line).
IsNodeOf(n, k) == n.key # <<>> /\ n.key[Len(n.key)] = Letter(k)

\* The keys of a tree in pre-order.
RECURSIVE Preorder(_)
RECURSIVE PreorderAll(_)
Preorder(n) == <<n.key>> \o PreorderAll(n.children)
PreorderAll(ns) ==
    IF ns = <<>> THEN <<>> ELSE Preorder(Head(ns)) \o PreorderAll(Tail(ns))

\* The texts of the non-blank lines among lines k.., in document order.
RECURSIVE TextsFrom(_)
TextsFrom(k) ==
    IF k > Len(lines) THEN <<>>
    ELSE IF IsBlank(lines[k]) THEN TextsFrom(k + 1)
    ELSE <<Text(lines[k])>> \o TextsFrom(k + 1)

\* The node reached from n by following a sequence of 0-based indices.
RECURSIVE NodeAt(_, _)
NodeAt(n, path) ==
    IF path = <<>> THEN n ELSE NodeAt(n.children[Head(path) + 1], Tail(path))

---------------------------------------------------------------------------
(* The properties.                                                         *)

\* C1: in the tree from_file returns, the node of every non-blank line is a
\* child of the node of the nearest preceding non-blank line of a strictly
\* lower level, and a child of the root when there is no such line.
C1_ParentIsNearestShallower ==
    Returning =>
        \A k \in NonBlank :
            \E e \in Edges(Result) :
                /\ IsNodeOf(e[2], k)
                /\ IF ParentLine(k) = 0
                   THEN e[1] = Result
                   ELSE IsNodeOf(e[1], ParentLine(k))

C3_BlankLineIsSkipped ==
    [][ (Len(lines') > Len(lines) /\ IsBlank(lines'[Len(lines')]))
            => (node' = node /\ parents' = parents /\ pc' # "close") ]_vars

\* C4: a cancellation reported by the prompt ends the navigation with a
\* non-error outcome: the process neither fails nor aborts, nothing is printed.
C4_CancelIsNoError ==
    cancelled => (pc = "done" /\ panic = "none" /\ out = <<>>)

\* C5: when the descent ends after at least one choice, the node it stands on
\* has no children, is the node reached from the root by following the chosen
\* indices, and its label is the option the last prompt answered with.
C5_CompletedAtChosenLeaf ==
    (pc = "done" /\ picked # <<>>) =>
        /\ t = NodeAt(tree, picked)
        /\ t.children = <<>>
        /\ Len(prompts) = Len(picked)
        /\ t.key = prompts[Len(prompts)][picked[Len(picked)] + 1]
        /\ panic = "none"

\* C5's case: a descent of two choices that ended on a second child.
C5_Witness ==
    /\ pc = "done"
    /\ Len(picked) = 2
    /\ picked[2] = 1

\* pick was called on a root without children and has ended.
EndedOnEmptyRoot ==
    /\ pc \in {"descend", "done", "panicked"}
    /\ tree # Undefined
    /\ tree.children = <<>>

\* C6, as stated: a root without children makes pick end with the message, as
\* no error, without any prompt; and no prompt ever receives an empty option
\* list.
C6_EmptyTreeReportsWithoutError ==
    /\ EndedOnEmptyRoot =>
           /\ pc = "done"
           /\ prompts = <<>>
           /\ out = Printed(NothingToPick)
           /\ panic = "none"
    /\ \A i \in DOMAIN prompts : prompts[i] # <<>>

\* C6, amended: a root without children makes pick end without any prompt,
\* with the message printed and a normal return, unless standard output
\* rejects the write of the message, when println! panics; and no prompt ever
\* receives an empty option list.
C6_EmptyTreeNeverPrompts ==
    /\ EndedOnEmptyRoot =>
           /\ prompts = <<>>
           /\ \/ pc = "done" /\ out = Printed(NothingToPick) /\ panic = "none"
              \/ pc = "panicked" /\ panic = "failed printing to stdout"
    /\ \A i \in DOMAIN prompts : prompts[i] # <<>>

\* C6's case: pick has returned on a root without children.
C6_Witness ==
    /\ pc = "done"
    /\ tree # Undefined
    /\ tree.children = <<>>
    /\ out = Printed(NothingToPick)

\* C7: with a prompt that always answers, pick terminates; every answered
\* prompt moves the descent to a child of the node it stood on; and at the end
\* the number of prompts is the depth of the leaf reached.
C7_OnePromptPerLevel ==
    /\ (pc = "pick") ~> (pc \in {"done", "panicked"})
    /\ [][ picked' # picked =>
              /\ \E i \in DOMAIN t.children : t' = t.children[i]
              /\ Len(prompts') = Len(prompts) + 1 ]_vars
    /\ []((pc = "done" /\ t # Undefined) =>
              /\ t = NodeAt(tree, picked)
              /\ t.children = <<>>
              /\ Len(prompts) = Len(picked))

\* C7's case: a descent of three levels has ended.
C7_Witness ==
    /\ pc = "done"
    /\ Len(prompts) = 3

\* C8: the node made from a non-blank line has as its key the text of the line
\* (what follows its leading whitespace characters, whatever they are), and as
\* its level the number of those characters.
C8_LabelIsTextOfLine ==
    (pc = "close" /\ ~IsBlank(lines[Len(lines)])) =>
        /\ node.key = Text(lines[Len(lines)])
        /\ ws = Level(lines[Len(lines)])

\* The control is in from_file, after line 96: in its loops, or stopped there
\* by a panic.
InFromFile ==
    \/ pc \in {"read", "close", "flush"}
    \/ /\ pc = "panicked"
       /\ panic \in { "byte index is not a char boundary",
                      "called Result::unwrap() on an Err value: io::Error" }
    \/ /\ pc = "panicked"
       /\ panic = "called Option::unwrap() on a None value"
       /\ lines # <<>>

\* C9: throughout the parsing loop the stack is non-empty, its bottom entry is
\* the root at level -1, its levels increase strictly from bottom to top, and
\* the closing step never pops the root.
C9_StackInvariant ==
    InFromFile =>
        /\ parents # <<>>
        /\ parents[1].ws = -1
        /\ parents[1].node.key = <<>>
        /\ \A i \in 1..(Len(parents) - 1) : parents[i].ws < parents[i + 1].ws
        /\ (pc = "close" /\ ShouldClose(ws, parents)) => Len(parents) >= 2

\* C10: the pre-order of the returned tree, the root left out, is the texts of
\* the non-blank lines, each once and in document order.
C10_PreorderIsDocumentOrder ==
    Returning => Tail(Preorder(Result)) = TextsFrom(1)

====
